---------------------------- MODULE Spec2Model ----------------------------
(***************************************************************************)
(* Address planning for an SRv6 emulated network (srv6_generators.py,      *)
(* srv6_properties.py).                                                    *)
(*                                                                         *)
(* A Python integer is modelled as the set of the positions of its 1 bits  *)
(* (bit 0 is the least significant): `x | y` is the union, `x << k` moves  *)
(* every position up by k.  An address of 128 (32) bits does not fit a     *)
(* machine integer of the model checker, and Python's integers are         *)
(* unbounded, so a position may exceed the address width; the ipaddress    *)
(* constructors reject such a value.                                       *)
(*                                                                         *)
(* A string produced by __str__ is modelled by the sequence of the groups  *)
(* it prints (eight 16-bit groups for IPv6, four octets for IPv4), a       *)
(* network string by that sequence plus the prefix length.                 *)
(***************************************************************************)
EXTENDS Integers, Sequences, FiniteSets, TLC

\* ------------------------------------------------------------------------
\* Bounds of the model
\* ------------------------------------------------------------------------

\* Largest value of the generator's index counter that the model explores.
MaxIndex == 3

\* Longest node list handed to getRoutersProperties / getHostsProperties.
MaxNodes == 2

\* Longest link list handed to a get*LinksProperties call.
MaxLinks == 2

\* The small indices 0..MaxSmall are fed to the allocators, with the
\* indices of BigIndices below.
MaxSmall == 5

MaxCalls == 2

\* ------------------------------------------------------------------------
\* Python values
\* ------------------------------------------------------------------------

\* None, as returned by dict.get for a missing key.  Indices are >= 0.
None == -1

\* A call that returns v / a call that raises the exception e.
Ok(v) == [ok |-> TRUE, val |-> v]

Raise(e) == [ok |-> FALSE, err |-> e]

\* The 1 bits of a non-negative integer below 2^31.
Bits(n) == {i \in 0..30 : (n \div (2^i)) % 2 = 1}

\* A Python operand: the bit set of an integer, or None.
PyInt(n) == IF n = None THEN {None} ELSE Bits(n)

\* v << k, of the bit set v
Shl(v, k) == {i + k : i \in v}

\* The integer made of the bits lo..lo+w-1 of the bit set v (w <= 16).
RECURSIVE Field(_, _, _)
Field(v, lo, w) ==
    IF w = 0 THEN 0
    ELSE (IF lo + w - 1 \in v THEN 2^(w - 1) ELSE 0) + Field(v, lo, w - 1)

\* ------------------------------------------------------------------------
\* The ipaddress library, as far as the generators use it
\* ------------------------------------------------------------------------

Width(version) == IF version = 6 THEN 128 ELSE 32

GroupBits(version) == IF version = 6 THEN 16 ELSE 8

NumGroups(version) == IF version = 6 THEN 8 ELSE 4

\* str(address): the groups of the address, most significant first.
Format(version, v) ==
    [k \in 1..NumGroups(version) |->
        Field(v, Width(version) - k * GroupBits(version), GroupBits(version))]

\* The integer value of a printed address.
RECURSIVE ParseFrom(_, _, _)
ParseFrom(version, groups, k) ==
    IF k > NumGroups(version) THEN {}
    ELSE Shl(Bits(groups[k]), Width(version) - k * GroupBits(version))
            \cup ParseFrom(version, groups, k + 1)

Parse(version, groups) == ParseFrom(version, groups, 1)

\* int(IPv6Interface(text).ip): text is the literal of a base network.
IPv6InterfaceIp(text) ==
    IF text.version = 6 THEN Ok(Parse(6, text.groups))
    ELSE Raise("AddressValueError")

\* int(IPv4Interface(text).ip)
IPv4InterfaceIp(text) ==
    IF text.version = 4 THEN Ok(Parse(4, text.groups))
    ELSE Raise("AddressValueError")

\* IPv6Network(v) / IPv4Network(v) of an integer v: the /128 (/32) network
\* of that address; a value of more than 128 (32) bits is rejected.
IPNetwork(version, v) ==
    IF \E b \in v : b >= Width(version) THEN Raise("AddressValueError")
    ELSE Ok([version |-> version, addr |-> v, prefixlen |-> Width(version)])

\* The three operations below take the outcome of the constructor call that
\* precedes them in the statement: an exception raised there propagates.

\* network.supernet(new_prefix=p)
supernet(network, p) ==
    IF ~network.ok THEN network
    ELSE Ok([network.val EXCEPT
                !.addr = {b \in network.val.addr : b >= Width(network.val.version) - p},
                !.prefixlen = p])

\* IPv6Interface(network).ip.__str__(): the address without the mask.
IpStr(network) ==
    IF ~network.ok THEN network
    ELSE Ok(Format(network.val.version, network.val.addr))

\* network.__str__(): "address/prefixlen".
NetStr(network) ==
    IF ~network.ok THEN network
    ELSE Ok([ip |-> Format(network.val.version, network.val.addr),
             prefixlen |-> network.val.prefixlen])

\* IPv4Address(n).__str__() of an integer n, and int(IPv4Address(text)).
IPv4AddressStr(n) == Format(4, Bits(n))

IPv4AddressInt(text) == Parse(4, text)

\* `base | v1 << s1 | v2 << s2 | ...` handed to IPv6Network / IPv4Network.
\* fields is the sequence of the <<PyInt(value), shift>> operands; base is the
\* result of the *InterfaceIp call, which is evaluated first; an operand
\* that is None makes `None << s` raise TypeError.
Pack(version, base, fields) ==
    IF ~base.ok THEN base
    ELSE IF \E i \in DOMAIN fields : fields[i][1] = {None} THEN Raise("TypeError")
    ELSE IPNetwork(version,
            base.val \cup UNION {Shl(fields[i][1], fields[i][2]) : i \in DOMAIN fields})


\* ------------------------------------------------------------------------
\* Module-level base network (srv6_generators.py:47-48)
\* ------------------------------------------------------------------------

bit == 16

\* u"fcff::/16"  (fcff = 64767)
net == [version |-> 6, groups |-> <<64767, 0, 0, 0, 0, 0, 0, 0>>, bit |-> bit]

\* ------------------------------------------------------------------------
\* SIDAllocator
\* ------------------------------------------------------------------------

SIDAllocator_prefix == 64

\* The VPN id placed in the fourth group, above the 64 bits of the family.
SIDAllocator_getSID_VpnAtBit64(router_id, vpn_id) ==
    IpStr(Pack(6, IPv6InterfaceIp(net),
              <<(<<IPv4AddressInt(router_id), 96>>), <<PyInt(2), 80>>, <<PyInt(vpn_id), 64>> >>))

\* router_id is the printed router id (four octets).
SIDAllocator_getSID(router_id, vpn_id) ==
    IpStr(Pack(6, IPv6InterfaceIp(net),
              <<(<<IPv4AddressInt(router_id), 96>>), <<PyInt(2), 80>>, <<PyInt(vpn_id), 0>> >>))

SIDAllocator_getSIDFamily(router_id) ==
    NetStr(supernet(Pack(6, IPv6InterfaceIp(net),
              <<(<<IPv4AddressInt(router_id), 96>>), <<PyInt(2), 80>> >>),
             SIDAllocator_prefix))

\* ------------------------------------------------------------------------
\* LoopbackAllocator, RouterNetAllocator, RouterIdAllocator
\* ------------------------------------------------------------------------

LoopbackAllocator_prefix == 64

LoopbackAllocator_getLoopbackAddress(router_index) ==
    IpStr(Pack(6, IPv6InterfaceIp(net), <<(<<PyInt(router_index), 96>>), <<PyInt(1), 0>> >>))

RouterNetAllocator_prefix == 32

\* The index placed in the third group, below the 32 bits of the summary.
RouterNetAllocator_getRouterNet_IndexAtBit80(router_index) ==
    NetStr(supernet(Pack(6, IPv6InterfaceIp(net), <<(<<PyInt(router_index), 80>>)>>),
             RouterNetAllocator_prefix))

RouterNetAllocator_getRouterNet(router_index) ==
    NetStr(supernet(Pack(6, IPv6InterfaceIp(net), <<(<<PyInt(router_index), 96>>)>>),
             RouterNetAllocator_prefix))

\* IPv4Address(router_index).__str__(); IPv4Address(None) is rejected.
RouterIdAllocator_getRouterId(router_index) ==
    IF router_index = None THEN Raise("AddressValueError")
    ELSE Ok(IPv4AddressStr(router_index))

\* ------------------------------------------------------------------------
\* IPv6NetAllocator
\* ------------------------------------------------------------------------

IPv6NetAllocator_bit == 16

\* u"fcf0::/16"  (fcf0 = 64752)
IPv6NetAllocator_net == [version |-> 6, groups |-> <<64752, 0, 0, 0, 0, 0, 0, 0>>, bit |-> IPv6NetAllocator_bit]

IPv6NetAllocator_prefix == 64

IPv6NetAllocator_getNet(l_router_index, r_router_index) ==
    supernet(Pack(6, IPv6InterfaceIp(IPv6NetAllocator_net),
              <<(<<PyInt(l_router_index), 80>>), <<PyInt(r_router_index), 64>> >>),
             IPv6NetAllocator_prefix)

\* The two indices in each other's field.
IPv6NetAllocator_getLRouterAddress_Swapped(l_router_index, r_router_index) ==
    IpStr(Pack(6, IPv6InterfaceIp(IPv6NetAllocator_net),
              <<(<<PyInt(r_router_index), 80>>), <<PyInt(l_router_index), 64>>, <<PyInt(1), 0>> >>))

IPv6NetAllocator_getLRouterAddress(l_router_index, r_router_index) ==
    IpStr(Pack(6, IPv6InterfaceIp(IPv6NetAllocator_net),
              <<(<<PyInt(l_router_index), 80>>), <<PyInt(r_router_index), 64>>, <<PyInt(1), 0>> >>))

\* The right router tagged 3 instead of 2.
IPv6NetAllocator_getRRouterAddress_Tag3(l_router_index, r_router_index) ==
    IpStr(Pack(6, IPv6InterfaceIp(IPv6NetAllocator_net),
              <<(<<PyInt(l_router_index), 80>>), <<PyInt(r_router_index), 64>>, <<PyInt(3), 0>> >>))

IPv6NetAllocator_getRRouterAddress(l_router_index, r_router_index) ==
    IpStr(Pack(6, IPv6InterfaceIp(IPv6NetAllocator_net),
              <<(<<PyInt(l_router_index), 80>>), <<PyInt(r_router_index), 64>>, <<PyInt(2), 0>> >>))

\* ------------------------------------------------------------------------
\* IPv4NetAllocator
\* ------------------------------------------------------------------------

IPv4NetAllocator_bit == 8

\* u"11.0.0.0/8"
IPv4NetAllocator_net == [version |-> 4, groups |-> <<11, 0, 0, 0>>, bit |-> IPv4NetAllocator_bit]

IPv4NetAllocator_prefix == 30

IPv4NetAllocator_getNet(l_router_index, r_router_index) ==
    supernet(Pack(4, IPv4InterfaceIp(IPv4NetAllocator_net),
              <<(<<PyInt(l_router_index), 13>>), <<PyInt(r_router_index), 2>> >>),
             IPv4NetAllocator_prefix)

IPv4NetAllocator_getLRouterAddress(l_router_index, r_router_index) ==
    IpStr(Pack(4, IPv4InterfaceIp(IPv4NetAllocator_net),
              <<(<<PyInt(l_router_index), 13>>), <<PyInt(r_router_index), 2>>, <<PyInt(1), 0>> >>))

IPv4NetAllocator_getRRouterAddress(l_router_index, r_router_index) ==
    IpStr(Pack(4, IPv4InterfaceIp(IPv4NetAllocator_net),
              <<(<<PyInt(l_router_index), 13>>), <<PyInt(r_router_index), 2>>, <<PyInt(2), 0>> >>))

\* ------------------------------------------------------------------------
\* IPv6CustomerFacingNetAllocator
\* ------------------------------------------------------------------------

IPv6CustomerFacingNetAllocator_bit == 48

\* u"fcff::/48"  (fcff = 64767)
IPv6CustomerFacingNetAllocator_net == [version |-> 6, groups |-> <<64767, 0, 0, 0, 0, 0, 0, 0>>, bit |-> IPv6CustomerFacingNetAllocator_bit]

IPv6CustomerFacingNetAllocator_prefix == 64

IPv6CustomerFacingNetAllocator_getNet(router_index, host_index) ==
    supernet(Pack(6, IPv6InterfaceIp(IPv6CustomerFacingNetAllocator_net),
              <<(<<PyInt(router_index), 96>>), <<PyInt(3), 80>>, <<PyInt(host_index), 64>> >>),
             IPv6CustomerFacingNetAllocator_prefix)

IPv6CustomerFacingNetAllocator_getRouterAddress(router_index, host_index) ==
    IpStr(Pack(6, IPv6InterfaceIp(IPv6CustomerFacingNetAllocator_net),
              <<(<<PyInt(router_index), 96>>), <<PyInt(3), 80>>, <<PyInt(host_index), 64>>, <<PyInt(1), 0>> >>))

IPv6CustomerFacingNetAllocator_getHostAddress(router_index, host_index) ==
    IpStr(Pack(6, IPv6InterfaceIp(IPv6CustomerFacingNetAllocator_net),
              <<(<<PyInt(router_index), 96>>), <<PyInt(3), 80>>, <<PyInt(host_index), 64>>, <<PyInt(2), 0>> >>))

\* ------------------------------------------------------------------------
\* IPv4CustomerFacingNetAllocator
\* ------------------------------------------------------------------------

IPv4CustomerFacingNetAllocator_bit == 16

\* u"192.168.0.0/16"
IPv4CustomerFacingNetAllocator_net == [version |-> 4, groups |-> <<192, 168, 0, 0>>, bit |-> IPv4CustomerFacingNetAllocator_bit]

IPv4CustomerFacingNetAllocator_prefix == 24

IPv4CustomerFacingNetAllocator_getNet(router_index, host_index) ==
    supernet(Pack(4, IPv4InterfaceIp(IPv4CustomerFacingNetAllocator_net),
              <<(<<PyInt(router_index), 9>>), <<PyInt(host_index), 2>> >>),
             IPv4CustomerFacingNetAllocator_prefix)

IPv4CustomerFacingNetAllocator_getRouterAddress(router_index, host_index) ==
    IpStr(Pack(4, IPv4InterfaceIp(IPv4CustomerFacingNetAllocator_net),
              <<(<<PyInt(router_index), 9>>), <<PyInt(host_index), 2>>, <<PyInt(1), 0>> >>))

IPv4CustomerFacingNetAllocator_getHostAddress(router_index, host_index) ==
    IpStr(Pack(4, IPv4InterfaceIp(IPv4CustomerFacingNetAllocator_net),
              <<(<<PyInt(router_index), 9>>), <<PyInt(host_index), 2>>, <<PyInt(2), 0>> >>))

\* ------------------------------------------------------------------------
\* IPv6AccessNetAllocator
\* ------------------------------------------------------------------------

IPv6AccessNetAllocator_bit == 48

\* u"fcfb::/48"  (fcfb = 64763)
IPv6AccessNetAllocator_net == [version |-> 6, groups |-> <<64763, 0, 0, 0, 0, 0, 0, 0>>, bit |-> IPv6AccessNetAllocator_bit]

IPv6AccessNetAllocator_prefix == 64

IPv6AccessNetAllocator_getNet(router_index, host_index) ==
    supernet(Pack(6, IPv6InterfaceIp(IPv6AccessNetAllocator_net),
              <<(<<PyInt(router_index), 96>>), <<PyInt(3), 80>>, <<PyInt(host_index), 64>> >>),
             IPv6AccessNetAllocator_prefix)

IPv6AccessNetAllocator_getRouterAddress(router_index, host_index) ==
    IpStr(Pack(6, IPv6InterfaceIp(IPv6AccessNetAllocator_net),
              <<(<<PyInt(router_index), 96>>), <<PyInt(3), 80>>, <<PyInt(host_index), 64>>, <<PyInt(1), 0>> >>))

IPv6AccessNetAllocator_getHostAddress(router_index, host_index) ==
    IpStr(Pack(6, IPv6InterfaceIp(IPv6AccessNetAllocator_net),
              <<(<<PyInt(router_index), 96>>), <<PyInt(3), 80>>, <<PyInt(host_index), 64>>, <<PyInt(2), 0>> >>))

\* ------------------------------------------------------------------------
\* IPv4AccessNetAllocator
\* ------------------------------------------------------------------------

IPv4AccessNetAllocator_bit == 16

\* u"10.0.0.0/16"
IPv4AccessNetAllocator_net == [version |-> 4, groups |-> <<10, 0, 0, 0>>, bit |-> IPv4AccessNetAllocator_bit]

IPv4AccessNetAllocator_prefix == 30

IPv4AccessNetAllocator_getNet(router_index, host_index) ==
    supernet(Pack(4, IPv4InterfaceIp(IPv4AccessNetAllocator_net),
              <<(<<PyInt(router_index), 9>>), <<PyInt(host_index), 2>> >>),
             IPv4AccessNetAllocator_prefix)

IPv4AccessNetAllocator_getRouterAddress(router_index, host_index) ==
    IpStr(Pack(4, IPv4InterfaceIp(IPv4AccessNetAllocator_net),
              <<(<<PyInt(router_index), 9>>), <<PyInt(host_index), 2>>, <<PyInt(1), 0>> >>))

IPv4AccessNetAllocator_getHostAddress(router_index, host_index) ==
    IpStr(Pack(4, IPv4InterfaceIp(IPv4AccessNetAllocator_net),
              <<(<<PyInt(router_index), 9>>), <<PyInt(host_index), 2>>, <<PyInt(2), 0>> >>))

\* ------------------------------------------------------------------------
\* IPv6CustomerNetAllocator
\* ------------------------------------------------------------------------

IPv6CustomerNetAllocator_bit == 8

\* u"fd00::/8"  (fd00 = 64768)
IPv6CustomerNetAllocator_net == [version |-> 6, groups |-> <<64768, 0, 0, 0, 0, 0, 0, 0>>, bit |-> IPv6CustomerNetAllocator_bit]

IPv6CustomerNetAllocator_prefix == 48

IPv6CustomerNetAllocator_getNet(vpn_id, host_id) ==
    supernet(Pack(6, IPv6InterfaceIp(IPv6CustomerNetAllocator_net),
              <<(<<PyInt(vpn_id), 96>>), <<PyInt(host_id), 80>> >>),
             IPv6CustomerNetAllocator_prefix)

IPv6CustomerNetAllocator_getRouterAddress(vpn_id, host_id) ==
    IpStr(Pack(6, IPv6InterfaceIp(IPv6CustomerNetAllocator_net),
              <<(<<PyInt(vpn_id), 96>>), <<PyInt(host_id), 80>>, <<PyInt(1), 0>> >>))

IPv6CustomerNetAllocator_getHostAddress(vpn_id, host_id) ==
    IpStr(Pack(6, IPv6InterfaceIp(IPv6CustomerNetAllocator_net),
              <<(<<PyInt(vpn_id), 96>>), <<PyInt(host_id), 80>>, <<PyInt(2), 0>> >>))

\* ------------------------------------------------------------------------
\* IPv4CustomerNetAllocator
\* ------------------------------------------------------------------------

IPv4CustomerNetAllocator_bit == 8

\* u"10.0.0.0/8"
IPv4CustomerNetAllocator_net == [version |-> 4, groups |-> <<10, 0, 0, 0>>, bit |-> IPv4CustomerNetAllocator_bit]

IPv4CustomerNetAllocator_prefix == 30

IPv4CustomerNetAllocator_getNet(vpn_id, host_id) ==
    supernet(Pack(4, IPv4InterfaceIp(IPv4CustomerNetAllocator_net),
              <<(<<PyInt(vpn_id), 16>>), <<PyInt(host_id), 8>> >>),
             IPv4CustomerNetAllocator_prefix)

IPv4CustomerNetAllocator_getRouterAddress(vpn_id, host_id) ==
    IpStr(Pack(4, IPv4InterfaceIp(IPv4CustomerNetAllocator_net),
              <<(<<PyInt(vpn_id), 16>>), <<PyInt(host_id), 8>>, <<PyInt(1), 0>> >>))

IPv4CustomerNetAllocator_getHostAddress(vpn_id, host_id) ==
    IpStr(Pack(4, IPv4InterfaceIp(IPv4CustomerNetAllocator_net),
              <<(<<PyInt(vpn_id), 16>>), <<PyInt(host_id), 8>>, <<PyInt(2), 0>> >>))

\* ------------------------------------------------------------------------
\* IPv6MgmtAllocator
\* ------------------------------------------------------------------------

IPv6MgmtAllocator_bit == 16

\* u"2000::/16"  (2000 hexadecimal = 8192); the class reads it with
\* IPv4Interface and builds its networks with IPv4Network.
IPv6MgmtAllocator_net == [version |-> 6, groups |-> <<8192, 0, 0, 0, 0, 0, 0, 0>>, bit |-> IPv6MgmtAllocator_bit]

IPv6MgmtAllocator_prefix == 64

IPv6MgmtAllocator_getNet(controller_index, router_index) ==
    supernet(Pack(4, IPv4InterfaceIp(IPv6MgmtAllocator_net),
              <<(<<PyInt(controller_index), 80>>), <<PyInt(router_index), 64>> >>),
             IPv6MgmtAllocator_prefix)

IPv6MgmtAllocator_getControllerAddress(controller_index, router_index) ==
    IpStr(Pack(4, IPv4InterfaceIp(IPv6MgmtAllocator_net),
              <<(<<PyInt(controller_index), 80>>), <<PyInt(router_index), 64>>, <<PyInt(2), 0>> >>))

IPv6MgmtAllocator_getRouterAddress(controller_index, router_index) ==
    IpStr(Pack(4, IPv4InterfaceIp(IPv6MgmtAllocator_net),
              <<(<<PyInt(controller_index), 80>>), <<PyInt(router_index), 64>>, <<PyInt(1), 0>> >>))

\* ------------------------------------------------------------------------
\* IPv4MgmtAllocator
\* ------------------------------------------------------------------------

IPv4MgmtAllocator_bit == 12

\* u"172.0.0.0/12"
IPv4MgmtAllocator_net == [version |-> 4, groups |-> <<172, 0, 0, 0>>, bit |-> IPv4MgmtAllocator_bit]

IPv4MgmtAllocator_prefix == 30

IPv4MgmtAllocator_getNet(controller_index, router_index) ==
    supernet(Pack(4, IPv4InterfaceIp(IPv4MgmtAllocator_net),
              <<(<<PyInt(controller_index), 11>>), <<PyInt(router_index), 2>> >>),
             IPv4MgmtAllocator_prefix)

IPv4MgmtAllocator_getControllerAddress(controller_index, router_index) ==
    IpStr(Pack(4, IPv4InterfaceIp(IPv4MgmtAllocator_net),
              <<(<<PyInt(controller_index), 11>>), <<PyInt(router_index), 2>>, <<PyInt(1), 0>> >>))

IPv4MgmtAllocator_getRouterAddress(controller_index, router_index) ==
    IpStr(Pack(4, IPv4InterfaceIp(IPv4MgmtAllocator_net),
              <<(<<PyInt(controller_index), 11>>), <<PyInt(router_index), 2>>, <<PyInt(2), 0>> >>))

\* ------------------------------------------------------------------------
\* srv6_properties.py: the records handed to the caller
\* ------------------------------------------------------------------------

RouterProperties(loopback, routerid, routernet, mgmtip, index) ==
    [class |-> "RouterProperties", loopback |-> loopback, routerid |-> routerid,
     routernet |-> routernet, mgmtip |-> mgmtip, index |-> index]

HostProperties(loopback, mgmtip, index) ==
    [class |-> "HostProperties", loopback |-> loopback, mgmtip |-> mgmtip,
     index |-> index]

LinkProperties(iplhs, iprhs, linknet, prefix) ==
    [iplhs |-> iplhs, iprhs |-> iprhs, net |-> linknet, prefix |-> prefix]

\* ------------------------------------------------------------------------
\* Inputs of a planning run
\* ------------------------------------------------------------------------

\* Node identifiers of the topology.
RouterIds == {"r1", "r2"}

HostIds == {"h1", "h2"}

Nodes == RouterIds \cup HostIds

\* The lists over S of at most n elements.
SeqUpTo(S, n) == UNION {[1..k -> S] : k \in 0..n}

\* Link tuples of each class: a core link joins two routers, an edge or
\* access link a router and a host (declared in either order), a
\* management link a controller (a host of the topology) and a router.
CoreLinks == {l \in RouterIds \X RouterIds : l[1] # l[2]}

EdgeLinks == (RouterIds \X HostIds) \cup (HostIds \X RouterIds)

MgmtLinks == HostIds \X RouterIds

\* ------------------------------------------------------------------------
\* State
\* ------------------------------------------------------------------------

VARIABLES
    self,           \* the class of the generator instance
    index,          \* self.index
    node_to_index,  \* self.node_to_index: a function on the keys present
    records,        \* every RouterProperties / HostProperties returned so far,
                    \* in the order returned
    ret,            \* the last call on the generator: its name, its argument
                    \* and what it returned or raised
    arg1,           \* first argument of the allocator calls
    arg2,           \* second argument of the allocator calls
    call,           \* the last allocator call and its result
    peer,           \* a second generator instance of the same process, when
                    \* there is one: its class, fields, records and calls
    calls           \* the calls made on the instance so far, when they are
                    \* kept: with a second instance beside it

genvars == <<self, index, node_to_index, records, ret>>

allocvars == <<arg1, arg2, call>>

pairvars == <<peer, calls>>

vars == <<self, index, node_to_index, records, ret, arg1, arg2, call, peer, calls>>

IPv6 == "IPv6PropertiesGenerator"

IPv4 == "IPv4PropertiesGenerator"

NoCall == [alloc |-> "none", method |-> "none", args |-> <<>>, result |-> Ok(<<>>)]

\* No second instance; the calls of the one instance are not kept.
NoCalls == [kept |-> FALSE, list |-> <<>>]

NoPeer ==
    [self |-> "none", index |-> 0, node_to_index |-> [n \in {} |-> 0], records |-> <<>>,
     ret |-> [op |-> "__init__", args |-> <<>>, result |-> Ok(<<>>)], calls |-> NoCalls]

\* __init__ of either generator class.
GenInit ==
    /\ self \in {IPv6, IPv4}
    /\ index = 0
    /\ node_to_index = [n \in {} |-> 0]
    /\ records = <<>>
    /\ ret = [op |-> "__init__", args |-> <<>>, result |-> Ok(<<>>)]

\* ------------------------------------------------------------------------
\* dict operations on node_to_index
\* ------------------------------------------------------------------------

\* d[key] = value
SetItem(d, key, value) ==
    [n \in DOMAIN d \cup {key} |-> IF n = key THEN value ELSE d[n]]

\* d[key]
GetItem(d, key) == IF key \in DOMAIN d THEN Ok(d[key]) ELSE Raise("KeyError")

\* d.get(key, 0): a missing key reads as index 0.
Get_DefaultZero(d, key) == IF key \in DOMAIN d THEN d[key] ELSE 0

\* d.get(key)
Get(d, key) == IF key \in DOMAIN d THEN d[key] ELSE None

\* ------------------------------------------------------------------------
\* getRoutersProperties / getHostsProperties
\* ------------------------------------------------------------------------

\* Body of the loop of IPv6PropertiesGenerator.getRoutersProperties, after
\* self.index += 1: the record built for the index i, or the exception.
IPv6RouterBody(i) ==
    LET loopback == LoopbackAllocator_getLoopbackAddress(i)
        routerid == RouterIdAllocator_getRouterId(i)
        routernet == RouterNetAllocator_getRouterNet(i)
    IN  IF ~loopback.ok THEN loopback
        ELSE IF ~routerid.ok THEN routerid
        ELSE IF ~routernet.ok THEN routernet
        ELSE Ok(RouterProperties(loopback.val, routerid.val, routernet.val, None, i))

IPv6HostBody(i) ==
    LET loopback == LoopbackAllocator_getLoopbackAddress(i)
    IN  IF ~loopback.ok THEN loopback
        ELSE Ok(HostProperties(loopback.val, None, i))

IPv4RouterBody(i) ==
    LET routerid == RouterIdAllocator_getRouterId(i)
    IN  IF ~routerid.ok THEN routerid
        ELSE Ok(RouterProperties(None, routerid.val, None, None, i))

\* The record takes the counter as it was before self.index += 1.
IPv4HostBody_StaleIndex(i) == Ok(HostProperties(None, None, i - 1))

IPv4HostBody(i) == Ok(HostProperties(None, None, i))

\* The loop bodies tabulated over the values the counter takes in a run.
IPv6RouterBodies == [i \in 1..(MaxIndex + 1) |-> IPv6RouterBody(i)]

IPv6HostBodies == [i \in 1..(MaxIndex + 1) |-> IPv6HostBody(i)]

IPv4RouterBodies == [i \in 1..(MaxIndex + 1) |-> IPv4RouterBody(i)]

IPv4HostBodies == [i \in 1..(MaxIndex + 1) |-> IPv4HostBody(i)]

\* `for node in nodes:` from its k-th iteration on.  st is the generator's
\* index and node_to_index and the output list; body[i] is what the loop
\* body computes once self.index += 1 has made the counter i.  An
\* exception leaves the loop with the state reached so far and without
\* the output.
RECURSIVE NodeLoop(_, _, _, _)
NodeLoop(st, nodes, body, k) ==
    IF k > Len(nodes) THEN [st EXCEPT !.result = Ok(st.output)]
    ELSE LET i == st.index + 1
         IN  IF ~body[i].ok THEN [st EXCEPT !.index = i, !.result = body[i]]
             ELSE NodeLoop([st EXCEPT !.index = i,
                                      !.node_to_index = SetItem(st.node_to_index, nodes[k], i),
                                      !.output = Append(st.output, body[i].val)],
                           nodes, body, k + 1)

LoopStart == [index |-> index, node_to_index |-> node_to_index, output |-> <<>>,
              result |-> Ok(<<>>)]

\* The call is added to the calls kept, of which there are at most
\* MaxCalls.
Logged(op, args) ==
    /\ calls.kept => Len(calls.list) < MaxCalls
    /\ calls' = IF calls.kept
                THEN [calls EXCEPT !.list = Append(@, [op |-> op, args |-> args])]
                ELSE calls

\* The counter kept in one place for both instances.
Registered_SharedCounter(op, nodes, st) ==
    /\ index' = st.index
    /\ node_to_index' = st.node_to_index
    /\ records' = IF st.result.ok THEN records \o st.result.val ELSE records
    /\ ret' = [op |-> op, args |-> nodes, result |-> st.result]
    /\ Logged(op, nodes)
    /\ peer' = [peer EXCEPT !.index = st.index]
    /\ UNCHANGED <<self, allocvars>>

\* The effect of a registration call whose loop ends in the state st.
Registered(op, nodes, st) ==
    /\ index' = st.index
    /\ node_to_index' = st.node_to_index
    /\ records' = IF st.result.ok THEN records \o st.result.val ELSE records
    /\ ret' = [op |-> op, args |-> nodes, result |-> st.result]
    /\ Logged(op, nodes)
    /\ UNCHANGED <<self, allocvars, peer>>

IPv6PropertiesGenerator_getRoutersProperties(nodes) ==
    /\ self = IPv6
    /\ index + Len(nodes) <= MaxIndex
    /\ Registered("getRoutersProperties", nodes, NodeLoop(LoopStart, nodes, IPv6RouterBodies, 1))

IPv6PropertiesGenerator_getHostsProperties(nodes) ==
    /\ self = IPv6
    /\ index + Len(nodes) <= MaxIndex
    /\ Registered("getHostsProperties", nodes, NodeLoop(LoopStart, nodes, IPv6HostBodies, 1))

IPv4PropertiesGenerator_getRoutersProperties(nodes) ==
    /\ self = IPv4
    /\ index + Len(nodes) <= MaxIndex
    /\ Registered("getRoutersProperties", nodes, NodeLoop(LoopStart, nodes, IPv4RouterBodies, 1))

IPv4PropertiesGenerator_getHostsProperties(nodes) ==
    /\ self = IPv4
    /\ index + Len(nodes) <= MaxIndex
    /\ Registered("getHostsProperties", nodes, NodeLoop(LoopStart, nodes, IPv4HostBodies, 1))

\* ------------------------------------------------------------------------
\* get*LinksProperties
\* ------------------------------------------------------------------------

\* Body of the loop of a get*LinksProperties method for one link whose
\* endpoints were looked up, given the outcomes of the three allocator calls in the
\* order of the code, then the LinkProperties record.
LinkBody(_net, l_node, r_node, prefix) ==
    IF ~_net.ok THEN _net
    ELSE IF ~l_node.ok THEN l_node
    ELSE IF ~r_node.ok THEN r_node
    ELSE Ok(LinkProperties(l_node.val, r_node.val, NetStr(_net).val, prefix))

\* What a lookup in node_to_index can give during a run of the model.
Lookups == (0..MaxIndex) \cup {None}

\* The allocators are pure functions, so the loop body of each method is
\* tabulated once over the lookups, and each call reads the table.
IPv6CoreLinkTable ==
    [l \in Lookups, r \in Lookups |->
        LinkBody(IPv6NetAllocator_getNet(l, r), IPv6NetAllocator_getLRouterAddress(l, r),
                 IPv6NetAllocator_getRRouterAddress(l, r), IPv6NetAllocator_prefix)]

IPv6EdgeLinkTable ==
    [l \in Lookups, r \in Lookups |->
        LinkBody(IPv6CustomerFacingNetAllocator_getNet(l, r), IPv6CustomerFacingNetAllocator_getRouterAddress(l, r),
                 IPv6CustomerFacingNetAllocator_getHostAddress(l, r), IPv6CustomerFacingNetAllocator_prefix)]

IPv6AccessLinkTable ==
    [l \in Lookups, r \in Lookups |->
        LinkBody(IPv6AccessNetAllocator_getNet(l, r), IPv6AccessNetAllocator_getRouterAddress(l, r),
                 IPv6AccessNetAllocator_getHostAddress(l, r), IPv6AccessNetAllocator_prefix)]

IPv6MgmtLinkTable ==
    [l \in Lookups, r \in Lookups |->
        LinkBody(IPv6MgmtAllocator_getNet(l, r), IPv6MgmtAllocator_getControllerAddress(l, r),
                 IPv6MgmtAllocator_getRouterAddress(l, r), IPv6MgmtAllocator_prefix)]

IPv4CoreLinkTable ==
    [l \in Lookups, r \in Lookups |->
        LinkBody(IPv4NetAllocator_getNet(l, r), IPv4NetAllocator_getLRouterAddress(l, r),
                 IPv4NetAllocator_getRRouterAddress(l, r), IPv4NetAllocator_prefix)]

IPv4EdgeLinkTable ==
    [l \in Lookups, r \in Lookups |->
        LinkBody(IPv4CustomerFacingNetAllocator_getNet(l, r), IPv4CustomerFacingNetAllocator_getRouterAddress(l, r),
                 IPv4CustomerFacingNetAllocator_getHostAddress(l, r), IPv4CustomerFacingNetAllocator_prefix)]

IPv4AccessLinkTable ==
    [l \in Lookups, r \in Lookups |->
        LinkBody(IPv4AccessNetAllocator_getNet(l, r), IPv4AccessNetAllocator_getRouterAddress(l, r),
                 IPv4AccessNetAllocator_getHostAddress(l, r), IPv4AccessNetAllocator_prefix)]

IPv4MgmtLinkTable ==
    [l \in Lookups, r \in Lookups |->
        LinkBody(IPv4MgmtAllocator_getNet(l, r), IPv4MgmtAllocator_getControllerAddress(l, r),
                 IPv4MgmtAllocator_getRouterAddress(l, r), IPv4MgmtAllocator_prefix)]

\* _lrouter = self.node_to_index[link[0]]; _rrouter = self.node_to_index[link[1]]
IPv6CoreLinkBody(d, link) ==
    LET _lrouter == GetItem(d, link[1])
        _rrouter == GetItem(d, link[2])
    IN  IF ~_lrouter.ok THEN _lrouter
        ELSE IF ~_rrouter.ok THEN _rrouter
        ELSE IPv6CoreLinkTable[_lrouter.val, _rrouter.val]

\* _lnode = self.node_to_index.get(link[0]); _rnode = self.node_to_index.get(link[1])
IPv6EdgeLinkBody(d, link) == IPv6EdgeLinkTable[Get(d, link[1]), Get(d, link[2])]

\* _lnode = self.node_to_index.get(link[0]); _rnode = self.node_to_index.get(link[1])
IPv6AccessLinkBody(d, link) == IPv6AccessLinkTable[Get(d, link[1]), Get(d, link[2])]

\* _lnode = self.node_to_index.get(link[0]); _rnode = self.node_to_index.get(link[1])
IPv6MgmtLinkBody(d, link) == IPv6MgmtLinkTable[Get(d, link[1]), Get(d, link[2])]

\* _lrouter = self.node_to_index[link[0]]; _rrouter = self.node_to_index[link[1]]
IPv4CoreLinkBody(d, link) ==
    LET _lrouter == GetItem(d, link[1])
        _rrouter == GetItem(d, link[2])
    IN  IF ~_lrouter.ok THEN _lrouter
        ELSE IF ~_rrouter.ok THEN _rrouter
        ELSE IPv4CoreLinkTable[_lrouter.val, _rrouter.val]

\* _lnode = self.node_to_index.get(link[0]); _rnode = self.node_to_index.get(link[1])
IPv4EdgeLinkBody(d, link) == IPv4EdgeLinkTable[Get(d, link[1]), Get(d, link[2])]

\* _lnode = self.node_to_index.get(link[0]); _rnode = self.node_to_index.get(link[1])
IPv4AccessLinkBody(d, link) == IPv4AccessLinkTable[Get(d, link[1]), Get(d, link[2])]

\* _lnode = self.node_to_index.get(link[0]); _rnode = self.node_to_index.get(link[1])
IPv4MgmtLinkBody(d, link) == IPv4MgmtLinkTable[Get(d, link[1]), Get(d, link[2])]

\* `for link in links:` from its k-th iteration on; body[k] is what the
\* loop body computes for the k-th link.  An exception ends the call and
\* the output list is lost.
RECURSIVE LinkLoop(_, _, _)
LinkLoop(output, body, k) ==
    IF k > Len(body) THEN Ok(output)
    ELSE IF ~body[k].ok THEN body[k]
    ELSE LinkLoop(Append(output, body[k].val), body, k + 1)

\* The map emptied once the links are resolved.
Resolved_MapCleared(op, links, result) ==
    /\ ret' = [op |-> op, args |-> links, result |-> result]
    /\ Logged(op, links)
    /\ node_to_index' = [n \in {} |-> 0]
    /\ UNCHANGED <<self, index, records, allocvars, peer>>

\* The effect of a link-resolution call.
Resolved(op, links, result) ==
    /\ ret' = [op |-> op, args |-> links, result |-> result]
    /\ Logged(op, links)
    /\ UNCHANGED <<self, index, node_to_index, records, allocvars, peer>>

IPv6PropertiesGenerator_getCoreLinksProperties(links) ==
    /\ self = IPv6
    /\ Resolved("getCoreLinksProperties", links,
            LinkLoop(<<>>, [k \in 1..Len(links) |-> IPv6CoreLinkBody(node_to_index, links[k])], 1))

IPv6PropertiesGenerator_getEdgeLinksProperties(links) ==
    /\ self = IPv6
    /\ Resolved("getEdgeLinksProperties", links,
            LinkLoop(<<>>, [k \in 1..Len(links) |-> IPv6EdgeLinkBody(node_to_index, links[k])], 1))

IPv6PropertiesGenerator_getAccessLinksProperties(links) ==
    /\ self = IPv6
    /\ Resolved("getAccessLinksProperties", links,
            LinkLoop(<<>>, [k \in 1..Len(links) |-> IPv6AccessLinkBody(node_to_index, links[k])], 1))

IPv6PropertiesGenerator_getMgmtLinksProperties(links) ==
    /\ self = IPv6
    /\ Resolved("getMgmtLinksProperties", links,
            LinkLoop(<<>>, [k \in 1..Len(links) |-> IPv6MgmtLinkBody(node_to_index, links[k])], 1))

IPv4PropertiesGenerator_getCoreLinksProperties(links) ==
    /\ self = IPv4
    /\ Resolved("getCoreLinksProperties", links,
            LinkLoop(<<>>, [k \in 1..Len(links) |-> IPv4CoreLinkBody(node_to_index, links[k])], 1))

IPv4PropertiesGenerator_getEdgeLinksProperties(links) ==
    /\ self = IPv4
    /\ Resolved("getEdgeLinksProperties", links,
            LinkLoop(<<>>, [k \in 1..Len(links) |-> IPv4EdgeLinkBody(node_to_index, links[k])], 1))

IPv4PropertiesGenerator_getAccessLinksProperties(links) ==
    /\ self = IPv4
    /\ Resolved("getAccessLinksProperties", links,
            LinkLoop(<<>>, [k \in 1..Len(links) |-> IPv4AccessLinkBody(node_to_index, links[k])], 1))

IPv4PropertiesGenerator_getMgmtLinksProperties(links) ==
    /\ self = IPv4
    /\ Resolved("getMgmtLinksProperties", links,
            LinkLoop(<<>>, [k \in 1..Len(links) |-> IPv4MgmtLinkBody(node_to_index, links[k])], 1))

\* ------------------------------------------------------------------------
\* A planning run on one generator instance
\* ------------------------------------------------------------------------

Init ==
    /\ GenInit
    /\ arg1 = 0
    /\ arg2 = 0
    /\ call = NoCall
    /\ peer = NoPeer
    /\ calls = NoCalls

Next ==
    \/ \E nodes \in SeqUpTo(RouterIds, MaxNodes) :
            IPv6PropertiesGenerator_getRoutersProperties(nodes)
    \/ \E nodes \in SeqUpTo(HostIds, MaxNodes) :
            IPv6PropertiesGenerator_getHostsProperties(nodes)
    \/ \E links \in SeqUpTo(CoreLinks, MaxLinks) :
            IPv6PropertiesGenerator_getCoreLinksProperties(links)
    \/ \E links \in SeqUpTo(EdgeLinks, MaxLinks) :
            IPv6PropertiesGenerator_getEdgeLinksProperties(links)
    \/ \E links \in SeqUpTo(EdgeLinks, MaxLinks) :
            IPv6PropertiesGenerator_getAccessLinksProperties(links)
    \/ \E links \in SeqUpTo(MgmtLinks, MaxLinks) :
            IPv6PropertiesGenerator_getMgmtLinksProperties(links)
    \/ \E nodes \in SeqUpTo(RouterIds, MaxNodes) :
            IPv4PropertiesGenerator_getRoutersProperties(nodes)
    \/ \E nodes \in SeqUpTo(HostIds, MaxNodes) :
            IPv4PropertiesGenerator_getHostsProperties(nodes)
    \/ \E links \in SeqUpTo(CoreLinks, MaxLinks) :
            IPv4PropertiesGenerator_getCoreLinksProperties(links)
    \/ \E links \in SeqUpTo(EdgeLinks, MaxLinks) :
            IPv4PropertiesGenerator_getEdgeLinksProperties(links)
    \/ \E links \in SeqUpTo(EdgeLinks, MaxLinks) :
            IPv4PropertiesGenerator_getAccessLinksProperties(links)
    \/ \E links \in SeqUpTo(MgmtLinks, MaxLinks) :
            IPv4PropertiesGenerator_getMgmtLinksProperties(links)

Spec == Init /\ [][Next]_vars

\* ------------------------------------------------------------------------
\* The allocators called on their own
\* ------------------------------------------------------------------------

\* Indices beyond the small ones: 64 = 2^6, 2048 = 2^11, 65536 = 2^16 and
\* 65537 = 2^16 + 1 reach past the fields of the IPv4 and IPv6 layouts.
BigIndices == {64, 2048, 65536, 65537}

AllocIndices == (0..MaxSmall) \cup BigIndices

\* The value a two-index allocator call leaves in `call`: getNet returns a
\* network object, which is recorded as printed.
Printed(r) == NetStr(r)

TwoIndexAllocators ==
    {"IPv6NetAllocator", "IPv4NetAllocator",
     "IPv6CustomerFacingNetAllocator", "IPv4CustomerFacingNetAllocator",
     "IPv6AccessNetAllocator", "IPv4AccessNetAllocator",
     "IPv6CustomerNetAllocator", "IPv4CustomerNetAllocator",
     "IPv6MgmtAllocator", "IPv4MgmtAllocator"}

AllocVersion(alloc) ==
    IF alloc \in {"IPv4NetAllocator", "IPv4CustomerFacingNetAllocator",
                  "IPv4AccessNetAllocator", "IPv4CustomerNetAllocator",
                  "IPv4MgmtAllocator"}
    THEN 4 ELSE 6

\* getNet(a, b) of the named allocator class, printed.
NetOf(alloc, a, b) ==
    CASE alloc = "IPv6NetAllocator" -> Printed(IPv6NetAllocator_getNet(a, b))
      [] alloc = "IPv4NetAllocator" -> Printed(IPv4NetAllocator_getNet(a, b))
      [] alloc = "IPv6CustomerFacingNetAllocator" ->
            Printed(IPv6CustomerFacingNetAllocator_getNet(a, b))
      [] alloc = "IPv4CustomerFacingNetAllocator" ->
            Printed(IPv4CustomerFacingNetAllocator_getNet(a, b))
      [] alloc = "IPv6AccessNetAllocator" -> Printed(IPv6AccessNetAllocator_getNet(a, b))
      [] alloc = "IPv4AccessNetAllocator" -> Printed(IPv4AccessNetAllocator_getNet(a, b))
      [] alloc = "IPv6CustomerNetAllocator" -> Printed(IPv6CustomerNetAllocator_getNet(a, b))
      [] alloc = "IPv4CustomerNetAllocator" -> Printed(IPv4CustomerNetAllocator_getNet(a, b))
      [] alloc = "IPv6MgmtAllocator" -> Printed(IPv6MgmtAllocator_getNet(a, b))
      [] alloc = "IPv4MgmtAllocator" -> Printed(IPv4MgmtAllocator_getNet(a, b))

\* The two get*Address(a, b) results of the named allocator class.
AddressesOf(alloc, a, b) ==
    CASE alloc = "IPv6NetAllocator" ->
            <<IPv6NetAllocator_getLRouterAddress(a, b), IPv6NetAllocator_getRRouterAddress(a, b)>>
      [] alloc = "IPv4NetAllocator" ->
            <<IPv4NetAllocator_getLRouterAddress(a, b), IPv4NetAllocator_getRRouterAddress(a, b)>>
      [] alloc = "IPv6CustomerFacingNetAllocator" ->
            <<IPv6CustomerFacingNetAllocator_getRouterAddress(a, b),
              IPv6CustomerFacingNetAllocator_getHostAddress(a, b)>>
      [] alloc = "IPv4CustomerFacingNetAllocator" ->
            <<IPv4CustomerFacingNetAllocator_getRouterAddress(a, b),
              IPv4CustomerFacingNetAllocator_getHostAddress(a, b)>>
      [] alloc = "IPv6AccessNetAllocator" ->
            <<IPv6AccessNetAllocator_getRouterAddress(a, b),
              IPv6AccessNetAllocator_getHostAddress(a, b)>>
      [] alloc = "IPv4AccessNetAllocator" ->
            <<IPv4AccessNetAllocator_getRouterAddress(a, b),
              IPv4AccessNetAllocator_getHostAddress(a, b)>>
      [] alloc = "IPv6CustomerNetAllocator" ->
            <<IPv6CustomerNetAllocator_getRouterAddress(a, b),
              IPv6CustomerNetAllocator_getHostAddress(a, b)>>
      [] alloc = "IPv4CustomerNetAllocator" ->
            <<IPv4CustomerNetAllocator_getRouterAddress(a, b),
              IPv4CustomerNetAllocator_getHostAddress(a, b)>>
      [] alloc = "IPv6MgmtAllocator" ->
            <<IPv6MgmtAllocator_getControllerAddress(a, b),
              IPv6MgmtAllocator_getRouterAddress(a, b)>>
      [] alloc = "IPv4MgmtAllocator" ->
            <<IPv4MgmtAllocator_getControllerAddress(a, b),
              IPv4MgmtAllocator_getRouterAddress(a, b)>>

\* The names of the two get*Address methods of the named allocator class.
AddressMethods(alloc) ==
    IF alloc \in {"IPv6NetAllocator", "IPv4NetAllocator"}
    THEN <<"getLRouterAddress", "getRRouterAddress">>
    ELSE IF alloc \in {"IPv6MgmtAllocator", "IPv4MgmtAllocator"}
    THEN <<"getControllerAddress", "getRouterAddress">>
    ELSE <<"getRouterAddress", "getHostAddress">>

Called(alloc, method, args, result) ==
    /\ call' = [alloc |-> alloc, method |-> method, args |-> args, result |-> result]
    /\ UNCHANGED <<genvars, arg1, arg2, pairvars>>

Call_SIDAllocator_getSID ==
    Called("SIDAllocator", "getSID", <<arg1, arg2>>,
           SIDAllocator_getSID(RouterIdAllocator_getRouterId(arg1).val, arg2))

Call_SIDAllocator_getSIDFamily ==
    Called("SIDAllocator", "getSIDFamily", <<arg1>>,
           SIDAllocator_getSIDFamily(RouterIdAllocator_getRouterId(arg1).val))

\* The loopback of the index counted from the generator's counter.
Call_LoopbackAllocator_getLoopbackAddress_FromCounter ==
    Called("LoopbackAllocator", "getLoopbackAddress", <<arg1>>,
           LoopbackAllocator_getLoopbackAddress(arg1 + index))

Call_LoopbackAllocator_getLoopbackAddress ==
    Called("LoopbackAllocator", "getLoopbackAddress", <<arg1>>,
           LoopbackAllocator_getLoopbackAddress(arg1))

Call_RouterNetAllocator_getRouterNet ==
    Called("RouterNetAllocator", "getRouterNet", <<arg1>>,
           RouterNetAllocator_getRouterNet(arg1))

Call_RouterIdAllocator_getRouterId ==
    Called("RouterIdAllocator", "getRouterId", <<arg1>>,
           RouterIdAllocator_getRouterId(arg1))

\* getNet(arg1, arg2) of a two-index allocator class.
Call_getNet(alloc) ==
    Called(alloc, "getNet", <<arg1, arg2>>, NetOf(alloc, arg1, arg2))

\* The first / second get*Address(arg1, arg2) of a two-index allocator class.
Call_getAddress(alloc, which) ==
    Called(alloc, AddressMethods(alloc)[which], <<arg1, arg2>>,
           AddressesOf(alloc, arg1, arg2)[which])

AllocInit ==
    /\ GenInit
    /\ self = IPv6
    /\ arg1 \in AllocIndices
    /\ arg2 \in AllocIndices
    /\ call = NoCall
    /\ peer = NoPeer
    /\ calls = NoCalls

AllocNext ==
    \/ Call_SIDAllocator_getSID
    \/ Call_SIDAllocator_getSIDFamily
    \/ Call_LoopbackAllocator_getLoopbackAddress
    \/ Call_RouterNetAllocator_getRouterNet
    \/ Call_RouterIdAllocator_getRouterId
    \/ \E alloc \in TwoIndexAllocators : Call_getNet(alloc)
    \/ \E alloc \in TwoIndexAllocators : \E which \in 1..2 : Call_getAddress(alloc, which)

AllocSpec == AllocInit /\ [][AllocNext]_vars

\* ------------------------------------------------------------------------
\* Allocator calls between the operations of a planning run
\* ------------------------------------------------------------------------

MaxShort == 1

MaxShortIndex == 2

\* The nodes registered in the short runs, and the links that end at the
\* host; a core link of a short run names a router that is never
\* registered.
ShortRouters == {"r1"}

ShortHosts == {"h1"}

ShortCoreLinks == ShortRouters \X (RouterIds \ ShortRouters)

ShortEdgeLinks == (ShortRouters \X ShortHosts) \cup (ShortHosts \X ShortRouters)

ShortMgmtLinks == ShortHosts \X ShortRouters

\* The operations of the generator on lists of at most MaxShort elements,
\* registrations while the counter is below MaxShortIndex.
ShortNext ==
    \/ \E nodes \in SeqUpTo(ShortRouters, MaxShort) :
            index < MaxShortIndex /\ IPv6PropertiesGenerator_getRoutersProperties(nodes)
    \/ \E nodes \in SeqUpTo(ShortHosts, MaxShort) :
            index < MaxShortIndex /\ IPv6PropertiesGenerator_getHostsProperties(nodes)
    \/ \E links \in SeqUpTo(ShortCoreLinks, MaxShort) :
            IPv6PropertiesGenerator_getCoreLinksProperties(links)
    \/ \E links \in SeqUpTo(ShortEdgeLinks, MaxShort) :
            IPv6PropertiesGenerator_getEdgeLinksProperties(links)
    \/ \E links \in SeqUpTo(ShortEdgeLinks, MaxShort) :
            IPv6PropertiesGenerator_getAccessLinksProperties(links)
    \/ \E links \in SeqUpTo(ShortMgmtLinks, MaxShort) :
            IPv6PropertiesGenerator_getMgmtLinksProperties(links)
    \/ \E nodes \in SeqUpTo(ShortRouters, MaxShort) :
            index < MaxShortIndex /\ IPv4PropertiesGenerator_getRoutersProperties(nodes)
    \/ \E nodes \in SeqUpTo(ShortHosts, MaxShort) :
            index < MaxShortIndex /\ IPv4PropertiesGenerator_getHostsProperties(nodes)
    \/ \E links \in SeqUpTo(ShortCoreLinks, MaxShort) :
            IPv4PropertiesGenerator_getCoreLinksProperties(links)
    \/ \E links \in SeqUpTo(ShortEdgeLinks, MaxShort) :
            IPv4PropertiesGenerator_getEdgeLinksProperties(links)
    \/ \E links \in SeqUpTo(ShortEdgeLinks, MaxShort) :
            IPv4PropertiesGenerator_getAccessLinksProperties(links)
    \/ \E links \in SeqUpTo(ShortMgmtLinks, MaxShort) :
            IPv4PropertiesGenerator_getMgmtLinksProperties(links)

\* The arguments of the allocator calls made during a run.
MixIndices == 1..2

MixInit ==
    /\ GenInit
    /\ arg1 \in MixIndices
    /\ arg2 \in MixIndices \ {arg1}
    /\ call = NoCall
    /\ peer = NoPeer
    /\ calls = NoCalls

MixNext == ShortNext \/ AllocNext

MixSpec == MixInit /\ [][MixNext]_vars

\* ------------------------------------------------------------------------
\* Two generator instances in one process
\* ------------------------------------------------------------------------

\* A generator instance after __init__, its calls kept.
Fresh(cls) ==
    [self |-> cls, index |-> 0, node_to_index |-> [n \in {} |-> 0], records |-> <<>>,
     ret |-> [op |-> "__init__", args |-> <<>>, result |-> Ok(<<>>)],
     calls |-> [kept |-> TRUE, list |-> <<>>]]

\* The instance the next call is made on.
Here ==
    [self |-> self, index |-> index, node_to_index |-> node_to_index, records |-> records,
     ret |-> ret, calls |-> calls]

\* The caller turns to the other instance.
Swap ==
    /\ peer.self # "none"
    /\ peer' = Here
    /\ self' = peer.self
    /\ index' = peer.index
    /\ node_to_index' = peer.node_to_index
    /\ records' = peer.records
    /\ ret' = peer.ret
    /\ calls' = peer.calls
    /\ UNCHANGED allocvars

PairInit ==
    /\ GenInit
    /\ calls = Fresh(self).calls
    /\ peer \in {Fresh(cls) : cls \in {IPv6, IPv4}}
    /\ arg1 = 0
    /\ arg2 = 0
    /\ call = NoCall

PairNext == ShortNext \/ Swap

PairSpec == PairInit /\ [][PairNext]_vars

\* ------------------------------------------------------------------------
\* Vocabulary of the properties
\* ------------------------------------------------------------------------

VersionOf(cls) == IF cls = IPv6 THEN 6 ELSE 4

\* The bits of the address v that a prefix of length p fixes.
TopBits(version, v, p) == {b \in v : b >= Width(version) - p}

\* The printed address ip is an address of the printed network n.
InNet(version, ip, n) ==
    TopBits(version, Parse(version, ip), n.prefixlen)
        = TopBits(version, Parse(version, n.ip), n.prefixlen)

\* The printed networks n1 and n2 have an address in common.
Overlap(version, n1, n2) ==
    LET p == IF n1.prefixlen <= n2.prefixlen THEN n1.prefixlen ELSE n2.prefixlen
    IN  TopBits(version, Parse(version, n1.ip), p)
            = TopBits(version, Parse(version, n2.ip), p)

LinkOps == {"getCoreLinksProperties", "getEdgeLinksProperties",
            "getAccessLinksProperties", "getMgmtLinksProperties"}

\* Both endpoints of the link are keys of node_to_index.
Known(link) == link[1] \in DOMAIN node_to_index /\ link[2] \in DOMAIN node_to_index

\* The last call resolved links and returned their records.
LinksReturned == ret.op \in LinkOps /\ ret.result.ok

\* ------------------------------------------------------------------------
\* C2
\* ------------------------------------------------------------------------

\* The indices the k-th link of the last call was resolved with.
IndexPair(k) == <<node_to_index[ret.args[k][1]], node_to_index[ret.args[k][2]]>>

\* C2: within one call of get*LinksProperties, of either generator, two
\* links whose (left index, right index) pairs differ get link subnets
\* with no address in common.
C2_LinkSubnetsDisjoint ==
    LinksReturned =>
        \A j, k \in DOMAIN ret.args :
            IndexPair(j) # IndexPair(k) =>
                ~Overlap(VersionOf(self), ret.result.val[j].net, ret.result.val[k].net)

\* ------------------------------------------------------------------------
\* C3
\* ------------------------------------------------------------------------

\* C3: an identifier that has an index keeps that index in node_to_index
\* through every later call on the generator.
C3_IndexImmutable ==
    [][\A n \in DOMAIN node_to_index :
            n \in DOMAIN node_to_index' /\ node_to_index'[n] = node_to_index[n]]_vars

\* ------------------------------------------------------------------------
\* C4
\* ------------------------------------------------------------------------

\* The link list names an identifier that is no key of node_to_index.
NamesUnknown(links) == \E k \in DOMAIN links : ~Known(links[k])

\* C4: a get*LinksProperties call whose list names an endpoint that was
\* never registered raises an exception, so it returns no record at all,
\* and it leaves the counter and node_to_index as they were.
C4_UnknownEndpointFails ==
    [][(ret'.op \in LinkOps /\ NamesUnknown(ret'.args)) =>
            /\ ~ret'.result.ok
            /\ index' = index
            /\ node_to_index' = node_to_index]_vars

\* A failed call whose first link is between registered nodes and whose
\* second link names an unregistered one, with and without dict.get.
C4_Witness ==
    /\ ret.op \in {"getCoreLinksProperties", "getEdgeLinksProperties"}
    /\ Len(ret.args) = 2
    /\ Known(ret.args[1])
    /\ ~Known(ret.args[2])
    /\ ~ret.result.ok
    /\ index > 0

\* ------------------------------------------------------------------------
\* C5
\* ------------------------------------------------------------------------

\* C5: the records returned by getRoutersProperties and
\* getHostsProperties carry, in the order returned, the indices 1, 2, ...,
\* N, where N is the number of records and the value of the counter; so
\* no record carries 0 and no two records, router or host, share an index.
C5_IndicesDense ==
    /\ index = Len(records)
    /\ \A k \in DOMAIN records : records[k].index = k
    /\ \A k \in DOMAIN records : records[k].index >= 1
    /\ \A j, k \in DOMAIN records : j # k => records[j].index # records[k].index

\* Routers and hosts were registered, in more than one call.
C5_Witness ==
    /\ Len(records) = MaxIndex
    /\ \E j, k \in DOMAIN records :
            /\ records[j].class = "RouterProperties"
            /\ records[k].class = "HostProperties"
            /\ j > k
    /\ ret.op = "getRoutersProperties"
    /\ Len(ret.args) = 1

\* ------------------------------------------------------------------------
\* C6
\* ------------------------------------------------------------------------

\* Every two-index allocator, on every pair of the indices of AllocIndices
\* for which its three calls return: both addresses are in getNet(a, b).
AddressesInNet ==
    \A alloc \in TwoIndexAllocators : \A a, b \in AllocIndices :
        LET n == NetOf(alloc, a, b)
            ips == AddressesOf(alloc, a, b)
        IN  (n.ok /\ ips[1].ok /\ ips[2].ok) =>
                /\ InNet(AllocVersion(alloc), ips[1].val, n.val)
                /\ InNet(AllocVersion(alloc), ips[2].val, n.val)

\* C6: in every LinkProperties a generator returns, iplhs and iprhs are
\* addresses of net; and for every two-index allocator both get*Address(a,
\* b) are addresses of getNet(a, b) whenever the calls return.
C6_EndpointsInsideNet ==
    /\ LinksReturned =>
            \A k \in DOMAIN ret.result.val :
                /\ InNet(VersionOf(self), ret.result.val[k].iplhs, ret.result.val[k].net)
                /\ InNet(VersionOf(self), ret.result.val[k].iprhs, ret.result.val[k].net)
    /\ AddressesInNet

\* A core call returned the records of two different links.
C6_Witness ==
    /\ ret.op = "getCoreLinksProperties"
    /\ ret.result.ok
    /\ Len(ret.result.val) = 2
    /\ ret.result.val[1].net # ret.result.val[2].net
    /\ ret.result.val[1].iplhs # ret.result.val[1].iprhs

\* ------------------------------------------------------------------------
\* C9
\* ------------------------------------------------------------------------

\* What the last call's method computes for one link.
Resolve(link) ==
    CASE self = IPv6 /\ ret.op = "getEdgeLinksProperties" -> IPv6EdgeLinkBody(node_to_index, link)
      [] self = IPv6 /\ ret.op = "getAccessLinksProperties" -> IPv6AccessLinkBody(node_to_index, link)
      [] self = IPv4 /\ ret.op = "getEdgeLinksProperties" -> IPv4EdgeLinkBody(node_to_index, link)
      [] self = IPv4 /\ ret.op = "getAccessLinksProperties" -> IPv4AccessLinkBody(node_to_index, link)

\* C9: an edge or access link declared (host, router) is resolved to the
\* subnet and the two addresses of the same link declared (router, host).
C9_RouterFieldRegardlessOfOrder ==
    (ret.op \in {"getEdgeLinksProperties", "getAccessLinksProperties"} /\ ret.result.ok) =>
        \A k \in DOMAIN ret.args :
            (ret.args[k][1] \in HostIds /\ ret.args[k][2] \in RouterIds) =>
                LET declared == ret.result.val[k]
                    swapped == Resolve(<<ret.args[k][2], ret.args[k][1]>>)
                IN  /\ swapped.ok
                    /\ declared.net = swapped.val.net
                    /\ {declared.iplhs, declared.iprhs} = {swapped.val.iplhs, swapped.val.iprhs}

\* ------------------------------------------------------------------------
\* C10
\* ------------------------------------------------------------------------

\* C10: getMgmtLinksProperties, called with links between registered
\* nodes, returns for each link a record whose subnet has the prefix
\* length of the management allocator (64 for IPv6, 30 for IPv4) and
\* whose two addresses are different addresses of that subnet.
C10_MgmtLinksResolved ==
    (ret.op = "getMgmtLinksProperties" /\ \A k \in DOMAIN ret.args : Known(ret.args[k])) =>
        /\ ret.result.ok
        /\ \A k \in DOMAIN ret.result.val :
            LET rec == ret.result.val[k]
            IN  /\ rec.prefix = (IF self = IPv6 THEN 64 ELSE 30)
                /\ rec.net.prefixlen = rec.prefix
                /\ rec.iplhs # rec.iprhs
                /\ InNet(VersionOf(self), rec.iplhs, rec.net)
                /\ InNet(VersionOf(self), rec.iprhs, rec.net)

\* ------------------------------------------------------------------------
\* Bit fields of the layouts
\* ------------------------------------------------------------------------

\* The number of bits the layout of each allocator allots to its first and
\* to its second argument: from the shift of the field up to the next
\* field, tag or base prefix above it (16 bits, one group, for the IPv6
\* fields; the VPN id of a SID is the last group, `tttt` in the comment
\* of SIDAllocator).
FieldBits(alloc) ==
    CASE alloc \in {"LoopbackAllocator", "RouterNetAllocator"} -> <<16>>
      [] alloc = "RouterIdAllocator" -> <<32>>
      [] alloc = "SIDAllocator" -> <<16, 16>>
      [] alloc \in {"IPv6NetAllocator", "IPv6CustomerFacingNetAllocator",
                    "IPv6AccessNetAllocator", "IPv6CustomerNetAllocator",
                    "IPv6MgmtAllocator"} -> <<16, 16>>
      [] alloc = "IPv4NetAllocator" -> <<11, 11>>
      [] alloc \in {"IPv4CustomerFacingNetAllocator", "IPv4AccessNetAllocator"} -> <<7, 7>>
      [] alloc = "IPv4CustomerNetAllocator" -> <<8, 8>>
      [] alloc = "IPv4MgmtAllocator" -> <<9, 9>>

Fits(n, w) == w > 30 \/ n < 2^w

\* Every argument fits the field of its position.
InRange(alloc, args) ==
    \A i \in DOMAIN args : i \in DOMAIN FieldBits(alloc) => Fits(args[i], FieldBits(alloc)[i])

\* ------------------------------------------------------------------------
\* C1
\* ------------------------------------------------------------------------

\* The allocators of address domains; the first three take one index.
OneIndexDomains == {"LoopbackAllocator", "RouterNetAllocator", "SIDAllocator"}

Domains == OneIndexDomains \cup TwoIndexAllocators

\* The network the domain allocator returns for the indices: the loopback
\* address as a /128, the router summary net, the SID family of the router
\* id of the index, getNet(a, b) of a two-index allocator.
AsHostNet(r) == IF r.ok THEN Ok([ip |-> r.val, prefixlen |-> 128]) ELSE r

DomainNet(alloc, a, b) ==
    CASE alloc = "LoopbackAllocator" -> AsHostNet(LoopbackAllocator_getLoopbackAddress(a))
      [] alloc = "RouterNetAllocator" -> RouterNetAllocator_getRouterNet(a)
      [] alloc = "SIDAllocator" ->
            SIDAllocator_getSIDFamily(RouterIdAllocator_getRouterId(a).val)
      [] OTHER -> NetOf(alloc, a, b)

DomainNets == [alloc \in Domains, a \in AllocIndices, b \in AllocIndices |-> DomainNet(alloc, a, b)]

DomainArgs(alloc, a, b) == IF alloc \in OneIndexDomains THEN <<a>> ELSE <<a, b>>

\* The last allocator call returned the network of a domain.
DomainCall ==
    /\ call.alloc \in Domains
    /\ call.method \in {"getLoopbackAddress", "getRouterNet", "getSIDFamily", "getNet"}
    /\ call.result.ok

CallNet == IF call.method = "getLoopbackAddress" THEN AsHostNet(call.result).val
           ELSE call.result.val

\* C1: a network returned by a domain allocator for indices within their
\* bit fields has no address in common with any network that a different
\* domain allocator of the same IP family returns for indices within
\* their bit fields.
C1_DomainsNeverOverlap ==
    (DomainCall /\ InRange(call.alloc, call.args)) =>
        \A other \in Domains \ {call.alloc} : \A a, b \in AllocIndices :
            (/\ AllocVersion(other) = AllocVersion(call.alloc)
             /\ InRange(other, DomainArgs(other, a, b))
             /\ DomainNets[other, a, b].ok) =>
                ~Overlap(AllocVersion(other), CallNet, DomainNets[other, a, b].val)

\* ------------------------------------------------------------------------
\* C7
\* ------------------------------------------------------------------------

\* C7: an allocator call with an argument that does not fit the bits of
\* its field raises an exception.
C7_OverflowRejected ==
    (call.alloc # "none" /\ ~InRange(call.alloc, call.args)) => ~call.result.ok

\* ------------------------------------------------------------------------
\* C8
\* ------------------------------------------------------------------------

Loopbacks == [i \in AllocIndices |-> LoopbackAllocator_getLoopbackAddress(i)]

\* C8: two different indices for which getLoopbackAddress returns get
\* different loopback addresses.
C8_LoopbackInjective ==
    (call.method = "getLoopbackAddress" /\ call.result.ok) =>
        \A i \in AllocIndices :
            (i # call.args[1] /\ Loopbacks[i].ok) => Loopbacks[i].val # call.result.val

\* ------------------------------------------------------------------------
\* C11
\* ------------------------------------------------------------------------

\* C11: for every two-index allocator class and indices a # b within the
\* bit fields, getNet(a, b) and getNet(b, a) both return and the two
\* networks differ.
C11_GetNetAsymmetric ==
    (/\ call.method = "getNet"
     /\ call.args[1] # call.args[2]
     /\ InRange(call.alloc, call.args)) =>
        LET back == DomainNets[call.alloc, call.args[2], call.args[1]]
        IN  /\ call.result.ok
            /\ back.ok
            /\ call.result.val # back.val

\* ------------------------------------------------------------------------
\* C12
\* ------------------------------------------------------------------------

\* The SID and the SID family of the router of each index: the router id
\* is the one RouterIdAllocator prints for the index.
SIDs ==
    [i \in AllocIndices, v \in AllocIndices |->
        SIDAllocator_getSID(RouterIdAllocator_getRouterId(i).val, v)]

SIDFamilies ==
    [i \in AllocIndices |-> SIDAllocator_getSIDFamily(RouterIdAllocator_getRouterId(i).val)]

DottedQuad(i) == <<i \div 16777216, (i \div 65536) % 256, (i \div 256) % 256, i % 256>>

\* C13: for indices within the 16-bit fields, getLoopbackAddress(i) is
\* fcff:i::1, getRouterId(i) is the dotted quad of i, and for the core
\* link (l, r) getNet is fcf0:0:l:r::/64, getLRouterAddress is
\* fcf0:0:l:r::1 and getRRouterAddress is fcf0:0:l:r::2 (0xfcff = 64767,
\* 0xfcf0 = 64752).
C13_DocumentedIPv6Layout ==
    /\ (call.method = "getLoopbackAddress" /\ InRange(call.alloc, call.args)) =>
            call.result = Ok(<<64767, call.args[1], 0, 0, 0, 0, 0, 1>>)
    /\ call.method = "getRouterId" =>
            call.result = Ok(DottedQuad(call.args[1]))
    /\ (call.alloc = "IPv6NetAllocator" /\ InRange(call.alloc, call.args)) =>
            LET l == call.args[1]
                r == call.args[2]
            IN  /\ call.method = "getNet" =>
                        call.result = Ok([ip |-> <<64752, 0, l, r, 0, 0, 0, 0>>,
                                          prefixlen |-> 64])
                /\ call.method = "getLRouterAddress" =>
                        call.result = Ok(<<64752, 0, l, r, 0, 0, 0, 1>>)
                /\ call.method = "getRRouterAddress" =>
                        call.result = Ok(<<64752, 0, l, r, 0, 0, 0, 2>>)

\* The right address of the core link (1, 2) was asked for and returned.
C13_Witness ==
    /\ call.alloc = "IPv6NetAllocator"
    /\ call.method = "getRRouterAddress"
    /\ call.args = <<1, 2>>
    /\ call.result.ok

\* ------------------------------------------------------------------------
\* C14
\* ------------------------------------------------------------------------

\* Every method of every allocator class.
AllocatorMethods ==
    {<<"SIDAllocator", "getSID">>, <<"SIDAllocator", "getSIDFamily">>,
     <<"LoopbackAllocator", "getLoopbackAddress">>,
     <<"RouterNetAllocator", "getRouterNet">>,
     <<"RouterIdAllocator", "getRouterId">>}
    \cup {<<alloc, "getNet">> : alloc \in TwoIndexAllocators}
    \cup {<<alloc, AddressMethods(alloc)[which]>> :
                alloc \in TwoIndexAllocators, which \in 1..2}

\* What the method returns for the arguments a, b (b unused by the
\* one-index methods) when it is called in the current state.
ResultOf(alloc, method, a, b) ==
    CASE method = "getSID" ->
            SIDAllocator_getSID(RouterIdAllocator_getRouterId(a).val, b)
      [] method = "getSIDFamily" ->
            SIDAllocator_getSIDFamily(RouterIdAllocator_getRouterId(a).val)
      [] method = "getLoopbackAddress" -> LoopbackAllocator_getLoopbackAddress(a)
      [] method = "getRouterNet" -> RouterNetAllocator_getRouterNet(a)
      [] method = "getRouterId" -> RouterIdAllocator_getRouterId(a)
      [] method = "getNet" -> NetOf(alloc, a, b)
      [] method = AddressMethods(alloc)[1] /\ alloc \in TwoIndexAllocators ->
            AddressesOf(alloc, a, b)[1]
      [] OTHER -> AddressesOf(alloc, a, b)[2]

NodeBodies(cls, op) ==
    IF cls = IPv6
    THEN (IF op = "getRoutersProperties" THEN IPv6RouterBodies ELSE IPv6HostBodies)
    ELSE (IF op = "getRoutersProperties" THEN IPv4RouterBodies ELSE IPv4HostBodies)

\* The loop body of the link method op of the class cls.
LinkBodyOf(cls, op, d, link) ==
    CASE cls = IPv6 /\ op = "getCoreLinksProperties" -> IPv6CoreLinkBody(d, link)
      [] cls = IPv6 /\ op = "getEdgeLinksProperties" -> IPv6EdgeLinkBody(d, link)
      [] cls = IPv6 /\ op = "getAccessLinksProperties" -> IPv6AccessLinkBody(d, link)
      [] cls = IPv6 /\ op = "getMgmtLinksProperties" -> IPv6MgmtLinkBody(d, link)
      [] cls = IPv4 /\ op = "getCoreLinksProperties" -> IPv4CoreLinkBody(d, link)
      [] cls = IPv4 /\ op = "getEdgeLinksProperties" -> IPv4EdgeLinkBody(d, link)
      [] cls = IPv4 /\ op = "getAccessLinksProperties" -> IPv4AccessLinkBody(d, link)
      [] cls = IPv4 /\ op = "getMgmtLinksProperties" -> IPv4MgmtLinkBody(d, link)

\* The instance inst after the call c, made with no other instance about.
After(inst, c) ==
    IF c.op \in LinkOps
    THEN [inst EXCEPT
            !.ret = [op |-> c.op, args |-> c.args,
                     result |-> LinkLoop(<<>>,
                        [k \in 1..Len(c.args) |->
                            LinkBodyOf(inst.self, c.op, inst.node_to_index, c.args[k])], 1)],
            !.calls.list = Append(@, c)]
    ELSE LET st == NodeLoop([index |-> inst.index, node_to_index |-> inst.node_to_index,
                             output |-> <<>>, result |-> Ok(<<>>)],
                            c.args, NodeBodies(inst.self, c.op), 1)
         IN  [inst EXCEPT
                !.index = st.index,
                !.node_to_index = st.node_to_index,
                !.records = IF st.result.ok THEN @ \o st.result.val ELSE @,
                !.ret = [op |-> c.op, args |-> c.args, result |-> st.result],
                !.calls.list = Append(@, c)]

\* A fresh instance of the class after the calls cs, executed alone.
RECURSIVE Alone(_, _)
Alone(cls, cs) ==
    IF Len(cs) = 0 THEN Fresh(cls)
    ELSE After(Alone(cls, SubSeq(cs, 1, Len(cs) - 1)), cs[Len(cs)])

\* The same calls with the same arguments.
SameCalls(cs1, cs2) ==
    /\ Len(cs1) = Len(cs2)
    /\ \A k \in 1..Len(cs1) : cs1[k].op = cs2[k].op /\ cs1[k].args = cs2[k].args

\* C15: with the calls on two generator instances interleaved in any
\* order, each instance has the counter, the node_to_index, the records
\* and the last result it has when its own calls are executed alone on a
\* fresh instance; two instances of one class given the same calls have
\* returned the same records.
C15_InstancesDoNotInterfere ==
    /\ Here = Alone(self, calls.list)
    /\ peer = Alone(peer.self, peer.calls.list)
    /\ (peer.self = self /\ SameCalls(peer.calls.list, calls.list)) =>
            /\ peer.records = records
            /\ peer.ret.result = ret.result

\* Two instances of one class have each registered a router and a host,
\* the one after the other.
C15_Witness ==
    /\ peer.self = self
    /\ index = 2
    /\ peer.index = 2
    /\ Len(calls.list) = 2
    /\ SameCalls(peer.calls.list, calls.list)
    /\ calls.list[1].op = "getRoutersProperties"
    /\ calls.list[2].op = "getHostsProperties"

\* ------------------------------------------------------------------------
\* C16
\* ------------------------------------------------------------------------

\* The base network an allocator class declares: the module-level net of
\* the SID, loopback and router-net allocators, the class attribute net
\* of the others.
BaseOf(alloc) ==
    CASE alloc = "IPv6NetAllocator" -> IPv6NetAllocator_net
      [] alloc = "IPv4NetAllocator" -> IPv4NetAllocator_net
      [] alloc = "IPv6CustomerFacingNetAllocator" -> IPv6CustomerFacingNetAllocator_net
      [] alloc = "IPv4CustomerFacingNetAllocator" -> IPv4CustomerFacingNetAllocator_net
      [] alloc = "IPv6AccessNetAllocator" -> IPv6AccessNetAllocator_net
      [] alloc = "IPv4AccessNetAllocator" -> IPv4AccessNetAllocator_net
      [] alloc = "IPv6CustomerNetAllocator" -> IPv6CustomerNetAllocator_net
      [] alloc = "IPv4CustomerNetAllocator" -> IPv4CustomerNetAllocator_net
      [] alloc = "IPv6MgmtAllocator" -> IPv6MgmtAllocator_net
      [] alloc = "IPv4MgmtAllocator" -> IPv4MgmtAllocator_net
      [] OTHER -> net

NetMethods == {"getNet", "getSIDFamily", "getRouterNet"}

\* What the last allocator call returned, an address taken as the network
\* of that one address.
CallAsNet ==
    IF call.method \in NetMethods THEN call.result.val
    ELSE [ip |-> call.result.val, prefixlen |-> Width(BaseOf(call.alloc).version)]

\* The printed network n lies inside the base network.
InsideBase(base, n) ==
    /\ n.prefixlen >= base.bit
    /\ TopBits(base.version, Parse(base.version, n.ip), base.bit)
            = TopBits(base.version, Parse(base.version, base.groups), base.bit)

\* C16: every network and every address that an allocator returns for
\* indices within their bit fields lies inside the base network the
\* allocator declares, net with the prefix length bit.
C16_InsideDeclaredBase ==
    (/\ call.alloc \notin {"none", "RouterIdAllocator"}
     /\ InRange(call.alloc, call.args)
     /\ call.result.ok) => InsideBase(BaseOf(call.alloc), CallAsNet)

\* ------------------------------------------------------------------------
\* C17
\* ------------------------------------------------------------------------

RouterNets == [i \in AllocIndices |-> RouterNetAllocator_getRouterNet(i)]

\* The printed network n lies inside the printed network m.
Within(n, m) == n.prefixlen >= m.prefixlen /\ InNet(6, n.ip, m)

\* C17: for router indices within the 16-bit field, the /32 network
\* getRouterNet(i) contains getLoopbackAddress(i), getSID(getRouterId(i), v)
\* for v within the VPN-id field, getSIDFamily(getRouterId(i)) and the
\* IPv6 customer-facing network getNet(i, h) for h within its field, and
\* it has no address in common with getRouterNet(i2) for another index i2
\* within the field.
C17_RouterNetCoversOwnRouter ==
    (/\ call.alloc # "none"
     /\ InRange(call.alloc, call.args)
     /\ Fits(call.args[1], 16)) =>
        LET own == RouterNets[call.args[1]]
        IN  /\ call.method \in {"getLoopbackAddress", "getSID"} =>
                    /\ call.result.ok
                    /\ own.ok
                    /\ InNet(6, call.result.val, own.val)
            /\ (\/ call.method = "getSIDFamily"
                 \/ (call.alloc = "IPv6CustomerFacingNetAllocator" /\ call.method = "getNet")) =>
                    /\ call.result.ok
                    /\ own.ok
                    /\ Within(call.result.val, own.val)
            /\ call.method = "getRouterNet" =>
                    /\ call.result.ok
                    /\ call.result.val.prefixlen = 32
                    /\ \A i2 \in AllocIndices :
                            (i2 # call.args[1] /\ Fits(i2, 16)) =>
                                /\ RouterNets[i2].ok
                                /\ ~Overlap(6, call.result.val, RouterNets[i2].val)

\* The customer-facing network of router 1 and host 2 was asked for.
C17_Witness ==
    /\ call.alloc = "IPv6CustomerFacingNetAllocator"
    /\ call.method = "getNet"
    /\ call.args = <<1, 2>>
    /\ call.result.ok
    /\ RouterNets[1].ok

\* ------------------------------------------------------------------------
\* C18
\* ------------------------------------------------------------------------

Registrations == {"getRoutersProperties", "getHostsProperties"}

\* C18: a call of a get*LinksProperties method, returning or raising,
\* leaves the counter and node_to_index as they were; a step that changes
\* either is a call of getRoutersProperties or getHostsProperties.
C18_LinksLeaveIndexState ==
    [][/\ ret'.op \in LinkOps => (index' = index /\ node_to_index' = node_to_index)
       /\ (index' # index \/ node_to_index' # node_to_index) =>
                ret'.op \in Registrations]_vars

\* Two links between registered nodes were resolved and returned.
C18_Witness ==
    /\ ret.op \in LinkOps
    /\ ret.result.ok
    /\ Len(ret.args) = 2
    /\ DOMAIN node_to_index # {}
    /\ index = Cardinality(DOMAIN node_to_index)

=============================================================================
